---- MODULE Spec2Model ----
(***************************************************************************)
(* Board engine of minesweeper.c (struct SBoard): the mine layer `board`,  *)
(* the player layer `input_board`, the cursor, the outcome flags and the   *)
(* two counters, with the commands move_cur / flag / reveal / quit that    *)
(* the main loop issues.  Cells and counters are TCell = int8_t.           *)
(***************************************************************************)
EXTENDS Integers, Sequences, FiniteSets, TLC

VARIABLES
    height, width, mines,      \* const TCell height, width, mines
    curY, curX,                \* cursor
    done, win, lose,           \* game state flags
    revealCount, flagCount,    \* TCell counters
    board, input_board,        \* flat arrays, cell (y,x) at x*height + y
    pc, minesAdded,            \* position inside init(): "place", "count", "play"
    lastOp, reinited, quitCalled,  \* history: last command, did it re-run init(), was quit() ever called
    preInput                   \* history: input_board as the last reveal() found it

vars == <<height, width, mines, curY, curX, done, win, lose, revealCount,
          flagCount, board, input_board, pc, minesAdded, lastOp, reinited,
          quitCalled, preInput>>

-----------------------------------------------------------------------------
(* Bounds of the model *)

\* small boards of Spec: 1..MaxH rows, 1..MaxW columns, at most MaxCells cells
MaxH == 2
MaxW == 3
MaxCells == 6
\* the player holds at most MaxFlags flags at a time in Spec
MaxFlags == 1
\* the sweeping player of SpecWide places at most MaxSweep flags
MaxSweep == 129
\* on boards of at most MaxEnum cells init() is modelled with every mine layout
MaxEnum == 9

-----------------------------------------------------------------------------
(* Cell values and the cell type *)

ERROR == 127
MINE == 42
REVEAL == 82
FLAGGED == 70
BLANK == 0
Digit0 == 48

\* conversion of an int to TCell (int8_t): two's complement wrap
ToTCell(n) == ((n + 128) % 256) - 128

\* the object as one record, so that the member functions are operators on it
State == [height |-> height, width |-> width, mines |-> mines,
          curY |-> curY, curX |-> curX,
          done |-> done, win |-> win, lose |-> lose,
          revealCount |-> revealCount, flagCount |-> flagCount,
          board |-> board, input_board |-> input_board]

-----------------------------------------------------------------------------
(* Accessors *)

is_valid(s, y, x) == y >= 0 /\ y < s.height /\ x >= 0 /\ x < s.width

\* index into the flat arrays (1-based sequences)
Idx(s, y, x) == x * s.height + y + 1

\* get with the index taken modulo the array size in place of the bounds test
get_wrap(s, y, x) == s.board[((x * s.height + y) % (s.height * s.width)) + 1]

get(s, y, x) == IF is_valid(s, y, x) THEN s.board[Idx(s, y, x)] ELSE ERROR

set(s, y, x, val) ==
    IF is_valid(s, y, x) THEN [s EXCEPT !.board[Idx(s, y, x)] = val] ELSE s

geti(s, y, x) == IF is_valid(s, y, x) THEN s.input_board[Idx(s, y, x)] ELSE ERROR

seti(s, y, x, val) ==
    IF is_valid(s, y, x) THEN [s EXCEPT !.input_board[Idx(s, y, x)] = val] ELSE s

Cells(s) == (0 .. s.height - 1) \X (0 .. s.width - 1)

\* the 3x3 window of the two nested loops, in the loops' row-major order
Window(y, x) == << <<y-1, x-1>>, <<y-1, x>>, <<y-1, x+1>>,
                   <<y,   x-1>>, <<y,   x>>, <<y,   x+1>>,
                   <<y+1, x-1>>, <<y+1, x>>, <<y+1, x+1>> >>

\* count_neighbors with the row loop written h < y+1: the row below is never read
count_neighbors_short(s, y, x) ==
    Cardinality({ k \in 1 .. 6 :
        LET h == Window(y, x)[k][1]
            w == Window(y, x)[k][2]
        IN  is_valid(s, h, w) /\ ~(h = y /\ w = x) /\ get(s, h, w) = MINE })

count_neighbors(s, y, x) ==
    Cardinality({ k \in 1 .. 9 :
        LET h == Window(y, x)[k][1]
            w == Window(y, x)[k][2]
        IN  is_valid(s, h, w) /\ ~(h = y /\ w = x) /\ get(s, h, w) = MINE })

\* max_reveal without the subtraction: the mines count as cells to reveal
max_reveal_cells(s) == ToTCell(s.height * s.width)

max_reveal(s) == ToTCell(s.height * s.width - s.mines)

is_done(s) == s.done

\* status() with the test of done first: a finished game always reads "Aborted"
status_done_first(s) == IF s.done THEN "Aborted"
                        ELSE IF s.lose THEN "Lose"
                        ELSE IF s.win THEN "Win"
                        ELSE "Playing"

status(s) == IF s.lose THEN "Lose"
             ELSE IF s.win THEN "Win"
             ELSE IF s.done THEN "Aborted"
             ELSE "Playing"

-----------------------------------------------------------------------------
(* init() *)

Zeros(n) == [i \in 1 .. n |-> BLANK]

\* lines 112-135: state variables reset, both arrays reallocated and zeroed
init_clear(s) ==
    [s EXCEPT !.done = FALSE, !.win = FALSE, !.lose = FALSE,
              !.revealCount = 0, !.flagCount = 0,
              !.board = Zeros(s.height * s.width),
              !.input_board = Zeros(s.height * s.width)]

\* lines 153-162: every cell that is not a mine gets its digit
init_count(s) ==
    [s EXCEPT !.board =
        [i \in 1 .. s.height * s.width |->
            LET y == (i - 1) % s.height
                x == (i - 1) \div s.height
            IN  IF get(s, y, x) # MINE
                THEN ToTCell(count_neighbors(s, y, x) + Digit0)
                ELSE s.board[i]]]

\* the board after the placement loop has put its mines on the cells M
init_place(s, M) ==
    [s EXCEPT !.board =
        [i \in 1 .. s.height * s.width |->
            IF <<(i - 1) % s.height, (i - 1) \div s.height>> \in M
            THEN MINE ELSE s.board[i]]]

init_with(s, M) == init_count(init_place(init_clear(s), M))

\* the cells of a flat index, and the mine sets the random placement can end with.
\* On the small boards every set of `mines` cells; on a preset board two of them
\* (the mines packed at the end, or at the start, of the flat array).
FlatCell(s, i) == <<(i - 1) % s.height, (i - 1) \div s.height>>

SmallBoard(s) == s.height * s.width <= MaxEnum

MineSets(s) ==
    IF SmallBoard(s)
    THEN { M \in SUBSET Cells(s) : Cardinality(M) = s.mines }
    ELSE LET n == s.height * s.width
         IN  { { FlatCell(s, i) : i \in (n - s.mines + 1) .. n },
               { FlatCell(s, i) : i \in 1 .. s.mines } }

\* every state a complete run of init() can leave the object in: init_with
\* for every mine set, the three stages evaluated one after the other
InitResults(s) ==
    { init_count(p) : p \in { init_place(init_clear(s), M) : M \in MineSets(s) } }

\* the object as the constructor has it when it calls init()
New(h, w, m) ==
    [height |-> h, width |-> w, mines |-> m, curY |-> 0, curX |-> 0,
     done |-> FALSE, win |-> FALSE, lose |-> FALSE,
     revealCount |-> 0, flagCount |-> 0,
     board |-> << >>, input_board |-> << >>]

-----------------------------------------------------------------------------
(* reveal() and r_reveal() *)

RECURSIVE r_reveal(_, _, _)

\* lines 269-273 without the test: the cell is counted at every visit
mark_always(s, y, x) ==
    [seti(s, y, x, REVEAL) EXCEPT !.revealCount = ToTCell(@ + 1)]

\* lines 269-273: a cell that is not yet REVEAL is revealed and counted
mark(s, y, x) ==
    IF geti(s, y, x) # REVEAL
    THEN [seti(s, y, x, REVEAL) EXCEPT !.revealCount = ToTCell(@ + 1)]
    ELSE s

\* the test of line 296 with any digit in place of '0': the fill goes on from
\* every cell that is not a mine
spreads_any(s, y, x) == get(s, y, x) # MINE

\* line 296: the fill goes on from a cell with no mine around it
spreads(s, y, x) == get(s, y, x) = Digit0

\* line 300-301: the body of the two loops for the neighbour (h,w)
r_reveal_visit(s, y, x, h, w) ==
    IF is_valid(s, h, w) /\ ~(h = y /\ w = x) /\ geti(s, h, w) # REVEAL
    THEN r_reveal(s, h, w)
    ELSE s

\* lines 298-301: the two loops over the window of (y,x), row by row; a1..a9
\* are the states after each of the nine passes.  Once a pass leaves the game
\* done every later call returns at line 260, so the loops end in that state.
\* (The loop variables are TCell; y+1 and x+1 stay below 127 on the boards
\* modelled here, so h <= y+1 is decided as in the code.)
r_reveal_loop(s, y, x) ==
    LET a1 == r_reveal_visit(s,  y, x, y - 1, x - 1)
        a2 == r_reveal_visit(a1, y, x, y - 1, x)
        a3 == r_reveal_visit(a2, y, x, y - 1, x + 1)
        a4 == r_reveal_visit(a3, y, x, y,     x - 1)
        a5 == r_reveal_visit(a4, y, x, y,     x)
        a6 == r_reveal_visit(a5, y, x, y,     x + 1)
        a7 == r_reveal_visit(a6, y, x, y + 1, x - 1)
        a8 == r_reveal_visit(a7, y, x, y + 1, x)
        a9 == r_reveal_visit(a8, y, x, y + 1, x + 1)
    IN  CASE a1.done -> a1
          [] a2.done -> a2
          [] a3.done -> a3
          [] a4.done -> a4
          [] a5.done -> a5
          [] a6.done -> a6
          [] a7.done -> a7
          [] a8.done -> a8
          [] OTHER -> a9

\* r_reveal without the test of line 263: a flagged cell is revealed like any other
r_reveal_noflag(s, y, x) ==
    LET enters == ~is_done(s)
        s1 == mark(s, y, x)
        recurses == /\ enters
                    /\ get(s1, y, x) # MINE
                    /\ ~(s1.revealCount >= max_reveal(s1))
                    /\ spreads(s1, y, x)
    IN  IF recurses THEN r_reveal_loop(s1, y, x)
        ELSE IF ~enters THEN s
        ELSE IF get(s1, y, x) = MINE
        THEN [s1 EXCEPT !.win = FALSE, !.lose = TRUE, !.done = TRUE]
        ELSE IF s1.revealCount >= max_reveal(s1)
        THEN [s1 EXCEPT !.win = TRUE, !.lose = FALSE, !.done = TRUE]
        ELSE s1

\* lines 257-304.  `enters` is the two guards at lines 260 and 263, s1 the
\* state after lines 269-273, `recurses` the path that reaches line 298 (not
\* a mine, not yet won, digit '0'); the loops are taken first so that the
\* nested calls are evaluated at a small depth.
r_reveal(s, y, x) ==
    LET enters == ~is_done(s) /\ geti(s, y, x) # FLAGGED
        s1 == mark(s, y, x)
        recurses == /\ enters
                    /\ get(s1, y, x) # MINE
                    /\ ~(s1.revealCount >= max_reveal(s1))
                    /\ spreads(s1, y, x)
    IN  IF recurses THEN r_reveal_loop(s1, y, x)
        ELSE IF ~enters THEN s
        ELSE IF get(s1, y, x) = MINE
        THEN [s1 EXCEPT !.win = FALSE, !.lose = TRUE, !.done = TRUE]
        ELSE IF s1.revealCount >= max_reveal(s1)
        THEN [s1 EXCEPT !.win = TRUE, !.lose = FALSE, !.done = TRUE]
        ELSE s1

\* the cells r_reveal is called on, in call order, by r_reveal(y, x) and the
\* calls nested in it.  Every call is listed, those that return at line 260
\* or 265 included.  The loops of lines 298-301 run all nine passes: a1..a8
\* are the states r_reveal leaves after each pass, and the calls of a pass
\* are those made from the state the pass before it left.
RECURSIVE r_calls(_, _, _)

r_calls_visit(s, y, x, h, w) ==
    IF is_valid(s, h, w) /\ ~(h = y /\ w = x) /\ geti(s, h, w) # REVEAL
    THEN r_calls(s, h, w)
    ELSE << >>

r_calls_loop(s, y, x) ==
    LET a1 == r_reveal_visit(s,  y, x, y - 1, x - 1)
        a2 == r_reveal_visit(a1, y, x, y - 1, x)
        a3 == r_reveal_visit(a2, y, x, y - 1, x + 1)
        a4 == r_reveal_visit(a3, y, x, y,     x - 1)
        a5 == r_reveal_visit(a4, y, x, y,     x)
        a6 == r_reveal_visit(a5, y, x, y,     x + 1)
        a7 == r_reveal_visit(a6, y, x, y + 1, x - 1)
        a8 == r_reveal_visit(a7, y, x, y + 1, x)
        c == << r_calls_visit(s,  y, x, y - 1, x - 1),
                r_calls_visit(a1, y, x, y - 1, x),
                r_calls_visit(a2, y, x, y - 1, x + 1),
                r_calls_visit(a3, y, x, y,     x - 1),
                r_calls_visit(a4, y, x, y,     x),
                r_calls_visit(a5, y, x, y,     x + 1),
                r_calls_visit(a6, y, x, y + 1, x - 1),
                r_calls_visit(a7, y, x, y + 1, x),
                r_calls_visit(a8, y, x, y + 1, x + 1) >>
    IN  c[1] \o (c[2] \o (c[3] \o (c[4] \o (c[5] \o (c[6] \o (c[7] \o (c[8] \o c[9])))))))

r_calls(s, y, x) ==
    LET s1 == mark(s, y, x)
        recurses == /\ ~is_done(s) /\ geti(s, y, x) # FLAGGED
                    /\ get(s1, y, x) # MINE
                    /\ ~(s1.revealCount >= max_reveal(s1))
                    /\ spreads(s1, y, x)
    IN  IF recurses
        THEN << <<y, x>> >> \o r_calls_loop(s1, y, x)
        ELSE << <<y, x>> >>

\* the calls of r_reveal that reveal() makes from the state the loop left
reveal_trace(s) == r_calls(s, s.curY, s.curX)

\* lines 260-292 for one cell, without the recursion: the two guards, the
\* reveal of the cell, the mine test and the win test
visit_cell(s, y, x) ==
    LET s1 == mark(s, y, x)
    IN  IF is_done(s) \/ geti(s, y, x) = FLAGGED THEN s
        ELSE IF get(s1, y, x) = MINE
        THEN [s1 EXCEPT !.win = FALSE, !.lose = TRUE, !.done = TRUE]
        ELSE IF s1.revealCount >= max_reveal(s1)
        THEN [s1 EXCEPT !.win = TRUE, !.lose = FALSE, !.done = TRUE]
        ELSE s1

\* neighbour orders of a worklist fill, as permutations of the window's nine
\* places: row by row (the order of lines 298-299), the reverse, column by column
Orders == { <<1, 2, 3, 4, 5, 6, 7, 8, 9>>,
            <<9, 8, 7, 6, 5, 4, 3, 2, 1>>,
            <<1, 4, 7, 2, 5, 8, 3, 6, 9>> }

\* the fill of r_reveal with an explicit worklist `todo` in place of the
\* recursion: the head cell is handled as lines 260-292 handle it, and if it
\* is a '0' cell its neighbours that pass the test of line 300 and are not
\* yet listed are added in the order `ord`, in front (a stack) or at the end
\* (a queue); the fill ends when the list is empty or the game is done
RECURSIVE worklist(_, _, _, _)
worklist(s, todo, ord, lifo) ==
    IF todo = << >> \/ is_done(s) THEN s
    ELSE LET y == Head(todo)[1]
             x == Head(todo)[2]
             rest == Tail(todo)
             t == visit_cell(s, y, x)
             cand == [k \in 1 .. 9 |-> Window(y, x)[ord[k]]]
             nbrs == SelectSeq(cand, LAMBDA c :
                        /\ is_valid(t, c[1], c[2])
                        /\ ~(c[1] = y /\ c[2] = x)
                        /\ geti(t, c[1], c[2]) # REVEAL
                        /\ \A i \in 1 .. Len(rest) : rest[i] # c)
             grows == geti(s, y, x) # FLAGGED /\ ~is_done(t) /\ spreads(t, y, x)
         IN  worklist(t,
                      IF ~grows THEN rest
                      ELSE IF lifo THEN nbrs \o rest ELSE rest \o nbrs,
                      ord, lifo)

\* the loop condition without revealCount == 0: any reveal on a mine reseeds
first_is_mine_any(s) == get(s, s.curY, s.curX) = MINE

\* line 238: the condition of the first-move loop
first_is_mine(s) == s.revealCount = 0 /\ get(s, s.curY, s.curX) = MINE

\* the first-move check written as an `if`: init() runs once and is not re-checked
reveal_loop_once(s) ==
    IF first_is_mine(s) THEN InitResults(s) ELSE { s }

\* lines 238-241: the loop runs init() until its condition is false; the
\* states it can leave with are the results of init() that end it
reveal_loop(s) ==
    IF first_is_mine(s)
    THEN { t \in InitResults(s) : ~first_is_mine(t) }
    ELSE { s }

\* the states reveal() can return with (none: the loop never ends)
reveal(s) == { r_reveal(t, t.curY, t.curX) : t \in reveal_loop(s) }

-----------------------------------------------------------------------------
(* flag(), move_cur(), quit() *)

flag(s) ==
    IF geti(s, s.curY, s.curX) = BLANK
    THEN [seti(s, s.curY, s.curX, FLAGGED) EXCEPT !.flagCount = ToTCell(@ + 1)]
    ELSE IF geti(s, s.curY, s.curX) = FLAGGED
    THEN [seti(s, s.curY, s.curX, BLANK) EXCEPT !.flagCount = ToTCell(@ - 1)]
    ELSE s

\* move_cur with each axis tested on its own: a move that is out of bounds on
\* one axis is still applied on the other
move_cur_axes(s, dy, dx) ==
    LET newY == ToTCell(dy + s.curY)
        newX == ToTCell(dx + s.curX)
    IN  [s EXCEPT !.curY = IF newY >= 0 /\ newY < s.height THEN newY ELSE @,
                  !.curX = IF newX >= 0 /\ newX < s.width THEN newX ELSE @]

move_cur(s, dy, dx) ==
    LET newY == ToTCell(dy + s.curY)
        newX == ToTCell(dx + s.curX)
    IN  IF is_valid(s, newY, newX)
        THEN [s EXCEPT !.curY = newY, !.curX = newX]
        ELSE s

quit(s) == [s EXCEPT !.done = TRUE]

-----------------------------------------------------------------------------
(* The state machine: the public member functions called in any order *)

Holds(t) ==
    /\ height = t.height /\ width = t.width /\ mines = t.mines
    /\ curY = t.curY /\ curX = t.curX
    /\ done = t.done /\ win = t.win /\ lose = t.lose
    /\ revealCount = t.revealCount /\ flagCount = t.flagCount
    /\ board = t.board /\ input_board = t.input_board

Becomes(t) ==
    /\ height' = t.height /\ width' = t.width /\ mines' = t.mines
    /\ curY' = t.curY /\ curX' = t.curX
    /\ done' = t.done /\ win' = t.win /\ lose' = t.lose
    /\ revealCount' = t.revealCount /\ flagCount' = t.flagCount
    /\ board' = t.board /\ input_board' = t.input_board

\* lines 591-606: the deltas the key map calls move_cur with
KeyDeltas == { <<1, 0>>, <<-1, 0>>, <<0, -1>>, <<0, 1>> }

\* the boards Spec is run on
SmallShapes == { hw \in (1 .. MaxH) \X (1 .. MaxW) : hw[1] * hw[2] <= MaxCells }

\* random(start, end): the values rand() % range + start can take, as a TCell
random(start, end) ==
    IF start < 0 \/ end < 1 \/ start >= end
    THEN { ERROR }
    ELSE { IF r > ERROR THEN ERROR ELSE ToTCell(r) : r \in start .. end - 1 }

\* the constructor: cursor at (0,0), then init() up to its placement loop
Constructed(h, w, m) ==
    /\ Holds(init_clear(New(h, w, m)))
    /\ pc = "place" /\ minesAdded = 0
    /\ lastOp = "init" /\ reinited = FALSE /\ quitCalled = FALSE
    /\ preInput = << >>

\* valid boards: mines < height * width
Init ==
    \E hw \in SmallShapes :
      \E m \in 0 .. hw[1] * hw[2] - 1 : Constructed(hw[1], hw[2], m)

\* any mine count up to one more than the cells
InitAny ==
    \E hw \in SmallShapes :
      \E m \in 0 .. hw[1] * hw[2] + 1 : Constructed(hw[1], hw[2], m)

\* line 685: the intermediate preset, and a board of 3 x 86 = 258 cells
\* without mines, just after construction
WideShapes == { <<16, 16, 40>>, <<3, 86, 0>> }

InitWide ==
    /\ \E c \in WideShapes :
         \E t \in InitResults(New(c[1], c[2], c[3])) : Holds(t)
    /\ pc = "play" /\ minesAdded = mines
    /\ lastOp = "init" /\ reinited = FALSE /\ quitCalled = FALSE
    /\ preInput = << >>

\* lines 139-150: one pass of the placement loop
PlaceMine ==
    /\ pc = "place"
    /\ minesAdded < mines
    /\ \E y \in random(0, height), x \in random(0, width) :
         IF get(State, y, x) = 0
         THEN /\ Becomes(set(State, y, x, MINE))
              /\ minesAdded' = ToTCell(minesAdded + 1)
         ELSE UNCHANGED <<height, width, mines, curY, curX, done, win, lose,
                          revealCount, flagCount, board, input_board,
                          minesAdded>>
    /\ UNCHANGED <<pc, lastOp, reinited, quitCalled, preInput>>

\* lines 139, 153-165: the placement loop ends, the digits are computed
\* and init() returns
CountNeighbors ==
    /\ pc = "place"
    /\ ~(minesAdded < mines)
    /\ Becomes(init_count(State))
    /\ pc' = "play"
    /\ UNCHANGED <<minesAdded, lastOp, reinited, quitCalled, preInput>>

Move(dy, dx) ==
    /\ pc = "play"
    /\ Becomes(move_cur(State, dy, dx))
    /\ lastOp' = "move" /\ reinited' = FALSE /\ preInput' = << >>
    /\ UNCHANGED <<pc, minesAdded, quitCalled>>

Flag ==
    /\ pc = "play"
    /\ Becomes(flag(State))
    /\ lastOp' = "flag" /\ reinited' = FALSE /\ preInput' = << >>
    /\ UNCHANGED <<pc, minesAdded, quitCalled>>

Reveal ==
    /\ pc = "play"
    /\ \E t \in reveal(State) : Becomes(t)
    /\ lastOp' = "reveal" /\ reinited' = first_is_mine(State)
    /\ preInput' = input_board
    /\ UNCHANGED <<pc, minesAdded, quitCalled>>

Quit ==
    /\ pc = "play"
    /\ Becomes(quit(State))
    /\ lastOp' = "quit" /\ reinited' = FALSE /\ quitCalled' = TRUE
    /\ preInput' = << >>
    /\ UNCHANGED <<pc, minesAdded>>

\* the player of Spec never holds more than MaxFlags flags
FlagAllowed == geti(State, curY, curX) = BLANK => flagCount < MaxFlags

Next ==
    \/ PlaceMine
    \/ CountNeighbors
    \/ \E dd \in KeyDeltas : Move(dd[1], dd[2])
    \/ (FlagAllowed /\ Flag)
    \/ Reveal
    \/ Quit

\* the player of SpecWide sweeps the board row by row, flagging every cell
SweepDelta == IF curX + 1 < width THEN <<0, 1>> ELSE <<1, 1 - width>>

SweepMoveAllowed == geti(State, curY, curX) = FLAGGED

SweepFlagAllowed ==
    /\ geti(State, curY, curX) = BLANK
    /\ Cardinality({ i \in 1 .. Len(input_board) : input_board[i] = FLAGGED }) < MaxSweep

NextWide ==
    \/ (SweepMoveAllowed /\ Move(SweepDelta[1], SweepDelta[2]))
    \/ (SweepFlagAllowed /\ Flag)
    \/ Reveal
    \/ Quit

Spec == Init /\ [][Next]_vars

\* init() alone, on any mine count
NextInit ==
    \/ PlaceMine
    \/ CountNeighbors

SpecInit == InitAny /\ [][NextInit]_vars

SpecWide == InitWide /\ [][NextWide]_vars

\* reveal() taken one loop pass at a time (lines 238-251): the call, a pass of
\* the first-move loop (one complete init()), and the fill once the loop ends
RevealCall ==
    /\ pc = "play"
    /\ pc' = "reveal"
    /\ reinited' = FALSE /\ preInput' = input_board
    /\ UNCHANGED <<height, width, mines, curY, curX, done, win, lose,
                   revealCount, flagCount, board, input_board, minesAdded,
                   lastOp, quitCalled>>

RevealLoopInit ==
    /\ pc = "reveal"
    /\ first_is_mine(State)
    /\ \E t \in InitResults(State) : Becomes(t)
    /\ reinited' = TRUE
    /\ UNCHANGED <<pc, minesAdded, lastOp, quitCalled, preInput>>

RevealFill ==
    /\ pc = "reveal"
    /\ ~first_is_mine(State)
    /\ Becomes(r_reveal(State, curY, curX))
    /\ pc' = "play" /\ lastOp' = "reveal"
    /\ UNCHANGED <<minesAdded, reinited, quitCalled, preInput>>

\* the scenario boards on which one reveal uncovers every safe cell
LiveShapes == { <<3, 3, 8>>, <<1, 2, 0>> }

InitLive == \E c \in LiveShapes : Constructed(c[1], c[2], c[3])

\* the cursor is moved anywhere, then reveal() is the first command
NextLive ==
    \/ PlaceMine
    \/ CountNeighbors
    \/ (revealCount = 0 /\ \E dd \in KeyDeltas : Move(dd[1], dd[2]))
    \/ RevealCall
    \/ RevealLoopInit
    \/ RevealFill

\* rand() is fair: a loop that keeps calling init() eventually gets a layout
\* whose cursor cell is not a mine; a call that can proceed does proceed
FairLive ==
    /\ SF_vars(RevealLoopInit /\ board'[Idx(State, curY, curX)] # MINE)
    /\ WF_vars(RevealFill)

SpecLive == InitLive /\ [][NextLive]_vars /\ FairLive

\* the values of a TCell argument
TCells == -128 .. 127

\* boards of at most one mine, and move_cur() called with any pair of TCell
\* arguments
InitMove ==
    \E hw \in SmallShapes :
      \E m \in { 0, 1 } : m < hw[1] * hw[2] /\ Constructed(hw[1], hw[2], m)

NextMove ==
    \/ PlaceMine
    \/ CountNeighbors
    \/ \E dy \in TCells, dx \in TCells : Move(dy, dx)

SpecMove == InitMove /\ [][NextMove]_vars

\* the same boards with the cursor left on (0,0): flag() and reveal() only
NextAccess ==
    \/ PlaceMine
    \/ CountNeighbors
    \/ Flag
    \/ Reveal

SpecAccess == InitMove /\ [][NextAccess]_vars

-----------------------------------------------------------------------------
(* Properties *)

MineCells(s) == { c \in Cells(s) : get(s, c[1], c[2]) = MINE }
RevealedCells(s) == { c \in Cells(s) : geti(s, c[1], c[2]) = REVEAL }
FlaggedCells(s) == { c \in Cells(s) : geti(s, c[1], c[2]) = FLAGGED }

Abs(n) == IF n < 0 THEN -n ELSE n
Adjacent(c, d) == c # d /\ Abs(c[1] - d[1]) <= 1 /\ Abs(c[2] - d[2]) <= 1

\* the number of mines among the in-bounds 8-neighbours of c
TrueCount(s, c) == Cardinality({ d \in MineCells(s) : Adjacent(c, d) })

\* the player layer before the last reveal(), as an object
Pre == [State EXCEPT !.input_board = preInput]

\* C1: a reveal() called while revealCount = 0 never returns with the game
\* lost, and the cursor cell is not a mine in the mine layer it returns with.
C1_FirstRevealSafe ==
    (pc = "play" /\ revealCount = 0) =>
        \A t \in reveal(State) :
            ~t.lose /\ get(t, t.curY, t.curX) # MINE

\* a first reveal, after moves and a flag, that found a mine under the
\* cursor, re-ran init() and returned with the game still on
C1_Witness ==
    /\ lastOp = "reveal" /\ reinited
    /\ FlaggedCells(Pre) # {}
    /\ <<curY, curX>> # <<0, 0>>
    /\ revealCount > 0 /\ ~lose /\ ~done
    /\ get(State, curY, curX) # MINE

\* C3: once init() has returned (construction, and every re-initialization by
\* the first reveal) exactly `mines` cells are MINE and every other cell holds
\* the digit of the number of mines among its in-bounds 8-neighbours.
C3_InitLayout ==
    pc = "play" =>
        /\ Cardinality(MineCells(State)) = mines
        /\ \A c \in Cells(State) \ MineCells(State) :
               get(State, c[1], c[2]) = Digit0 + TrueCount(State, c)
        /\ lastOp = "init" => State \in InitResults(State)

\* a board rebuilt by the first reveal, with two mines next to one cell
C3_Witness ==
    /\ pc = "play" /\ lastOp = "reveal" /\ reinited
    /\ mines = 2
    /\ \E c \in Cells(State) : get(State, c[1], c[2]) = Digit0 + 2

\* C2: the game is won only when every cell that is not a mine is REVEALED.
C2_WonIffAllSafeRevealed ==
    pc = "play" =>
        (win <=> (Cells(State) \ MineCells(State)) \subseteq RevealedCells(State))

\* the zero-count cells connected to the cursor cell through zero-count cells
\* that are not flagged (8-connectivity); empty when the cursor cell itself is
\* flagged or is not a zero
RECURSIVE Grow(_, _)
Grow(s, R) ==
    LET N == R \cup { c \in Cells(s) :
                        /\ get(s, c[1], c[2]) = Digit0
                        /\ geti(s, c[1], c[2]) # FLAGGED
                        /\ \E d \in R : Adjacent(c, d) }
    IN  IF N = R THEN R ELSE Grow(s, N)

ZeroRegion(s) ==
    IF get(s, s.curY, s.curX) = Digit0 /\ geti(s, s.curY, s.curX) # FLAGGED
    THEN Grow(s, { <<s.curY, s.curX>> })
    ELSE {}

\* the region and its one-layer border
RegionAndBorder(s) ==
    ZeroRegion(s) \cup { c \in Cells(s) : \E d \in ZeroRegion(s) : Adjacent(c, d) }

\* C4: in a Playing state, a reveal() that ends on a zero-count cursor cell
\* leaves every cell of the cursor's zero region and of its border REVEALED
\* unless FLAGGED, and newly reveals no cell outside them.
C4_FloodRegion ==
    (pc = "play" /\ ~done) =>
        \A t \in reveal(State) :
            get(t, t.curY, t.curX) = Digit0 =>
                /\ \A c \in RegionAndBorder(t) :
                       geti(t, c[1], c[2]) \in { REVEAL, FLAGGED }
                /\ (RevealedCells(t) \ RevealedCells(State)) \subseteq RegionAndBorder(t)

\* C5 (as claimed): every cell FLAGGED before reveal() is FLAGGED when it
\* returns, and flagCount is unchanged.
C5_RevealKeepsFlags ==
    pc = "play" =>
        \A t \in reveal(State) :
            /\ FlaggedCells(State) \subseteq FlaggedCells(t)
            /\ t.flagCount = flagCount

\* C5 (amended): a reveal() that does not re-run init() leaves every FLAGGED
\* cell FLAGGED and flagCount unchanged; a reveal() that re-runs init()
\* (revealCount = 0 and the cursor cell a mine) returns with no cell FLAGGED
\* and flagCount = 0.
C5_RevealKeepsFlagsUnlessReinit ==
    pc = "play" =>
        \A t \in reveal(State) :
            IF first_is_mine(State)
            THEN FlaggedCells(t) = {} /\ t.flagCount = 0
            ELSE /\ FlaggedCells(State) \subseteq FlaggedCells(t)
                 /\ t.flagCount = flagCount

\* a fill that revealed a zero cell next to a flagged cell and left the flag
C5_Witness ==
    /\ lastOp = "reveal" /\ ~reinited
    /\ \E c \in FlaggedCells(Pre) \cap FlaggedCells(State) :
         \E d \in RevealedCells(State) \ RevealedCells(Pre) :
            Adjacent(c, d) /\ get(State, d[1], d[2]) = Digit0

\* C6: once the game is won or lost no command changes the mine layer, the
\* player layer, the counters, the cursor or the outcome.
C6_Terminal ==
    [][(win \/ lose) =>
         UNCHANGED <<board, input_board, revealCount, flagCount, curY, curX,
                     done, win, lose>>]_vars

\* C7: after quit() the game stays done, the status is never "Playing" again
\* and reveal() changes neither layer nor any counter.
C7_QuitIsFinal ==
    quitCalled =>
        /\ is_done(State)
        /\ status(State) # "Playing"
        /\ \A t \in reveal(State) :
              /\ t.board = board /\ t.input_board = input_board
              /\ t.revealCount = revealCount /\ t.flagCount = flagCount

\* C8: revealCount is the number of REVEALED cells and flagCount the number of
\* FLAGGED cells.
C8_CountersMatch ==
    pc = "play" =>
        /\ revealCount = Cardinality(RevealedCells(State))
        /\ flagCount = Cardinality(FlaggedCells(State))

\* C9: with mines >= height * width init() places no mine and no game starts,
\* and no game starts in which reveal() cannot return.
C9_InvalidFailsFast ==
    /\ mines >= height * width => (minesAdded = 0 /\ pc # "play")
    /\ pc = "play" => reveal(State) # {}

\* C10: flag() turns a HIDDEN cursor cell FLAGGED with flagCount + 1 and a
\* second flag() restores the state; it turns a FLAGGED cell HIDDEN with
\* flagCount - 1; on a REVEALED cell it changes nothing; it never changes
\* another cell, the mine layer, revealCount or the cursor.
C10_FlagToggle ==
    pc = "play" =>
        LET t == flag(State)
            v == geti(State, curY, curX)
        IN  /\ v = BLANK =>
                 /\ geti(t, curY, curX) = FLAGGED
                 /\ t.flagCount = flagCount + 1
                 /\ flag(t) = State
            /\ v = FLAGGED =>
                 /\ geti(t, curY, curX) = BLANK
                 /\ t.flagCount = flagCount - 1
            /\ v = REVEAL => t = State
            /\ \A c \in Cells(State) \ { <<curY, curX>> } :
                 geti(t, c[1], c[2]) = geti(State, c[1], c[2])
            /\ [t EXCEPT !.input_board = input_board, !.flagCount = flagCount] = State

\* C11: the cursor is always inside the grid, and for every pair of TCell
\* deltas move_cur() puts the cursor on (curY+dy, curX+dx) when that cell is
\* in bounds and changes nothing otherwise (no clamping, no move on one axis
\* only, no wrapped sum taken for a coordinate).
C11_MoveInBoundsOrRefused ==
    /\ is_valid(State, curY, curX)
    /\ pc = "play" =>
          \A dy \in TCells, dx \in TCells :
             move_cur(State, dy, dx) =
                IF is_valid(State, curY + dy, curX + dx)
                THEN [State EXCEPT !.curY = curY + dy, !.curX = curX + dx]
                ELSE State

\* the cursor moved to the far corner of a 2x3 board, where a delta whose sum
\* wraps on both axes, and one that is out of bounds on one axis only, are
\* both refused
C11_Witness ==
    /\ lastOp = "move" /\ height = 2 /\ width = 3
    /\ curY = 1 /\ curX = 2
    /\ ToTCell(curY + 127) < 0 /\ ToTCell(curX + 127) < 0
    /\ move_cur(State, 127, 127) = State
    /\ move_cur(State, -1, 1) = State

\* C12: on 3x3 with 8 mines (any cursor position) and on 1x2 with no mine, a
\* reveal() called as the first command, no flag placed, eventually returns
\* with the game won, every safe cell REVEALED and no mine REVEALED.
C12_FirstRevealWins ==
    (pc = "reveal" /\ revealCount = 0 /\ FlaggedCells(State) = {})
        ~> (/\ pc = "play" /\ lastOp = "reveal"
            /\ status(State) = "Win"
            /\ (Cells(State) \ MineCells(State)) \subseteq RevealedCells(State)
            /\ MineCells(State) \cap RevealedCells(State) = {})

\* 3x3 with 8 mines, the cursor moved to the centre: the first reveal re-ran
\* init() and returned with the game won on the one safe cell
C12_Witness ==
    /\ height = 3 /\ width = 3 /\ mines = 8
    /\ pc = "play" /\ lastOp = "reveal" /\ reinited
    /\ curY = 1 /\ curX = 1
    /\ win /\ revealCount = 1
    /\ RevealedCells(State) = { <<1, 1>> }

\* C13: at most one mine cell is REVEALED, the game is lost exactly when one
\* is, and a reveal() that reveals a mine reveals the cursor cell and no
\* other cell (the fill never reaches a mine).
C13_MineOnlyAtStart ==
    pc = "play" =>
        /\ Cardinality(MineCells(State) \cap RevealedCells(State)) <= 1
        /\ lose <=> MineCells(State) \cap RevealedCells(State) # {}
        /\ \A t \in reveal(State) :
              (MineCells(t) \cap RevealedCells(t)) # (MineCells(State) \cap RevealedCells(State))
                 => /\ t.board = board
                    /\ get(t, curY, curX) = MINE
                    /\ RevealedCells(t) = RevealedCells(State) \cup { <<curY, curX>> }
                    /\ t.lose

\* a fill revealed cells, then a later reveal() on a mine lost the game, with
\* another mine next to a revealed cell still hidden
C13_Witness ==
    /\ pc = "play" /\ lastOp = "reveal" /\ lose
    /\ MineCells(State) \cap RevealedCells(State) = { <<curY, curX>> }
    /\ Cardinality(RevealedCells(Pre)) >= 2
    /\ RevealedCells(State) = RevealedCells(Pre) \cup { <<curY, curX>> }
    /\ \E c \in MineCells(State) \ RevealedCells(State) :
          \E d \in RevealedCells(State) : Adjacent(c, d)

\* C14: within one reveal() call r_reveal is invoked on no cell more than
\* once, whatever cells are flagged or already revealed, and so at most
\* height * width times.
C14_VisitOnce ==
    pc = "play" =>
        \A t \in reveal_loop(State) :
            LET log == reveal_trace(t)
            IN  /\ \A i \in 1 .. Len(log) : \A j \in 1 .. Len(log) :
                       log[i] = log[j] => i = j
                /\ Len(log) <= height * width

\* C15: move_cur(), flag() and quit() never change the mine layer; reveal()
\* changes it only when called with revealCount = 0 and the cursor on a mine;
\* once revealCount is not 0 the mine layer never changes again.
C15_MineLayerFrame ==
    [][pc = "play" =>
         /\ lastOp' \in { "move", "flag", "quit" } => board' = board
         /\ board' # board =>
               /\ lastOp' = "reveal"
               /\ revealCount = 0
               /\ get(State, curY, curX) = MINE
         /\ revealCount # 0 => (board' = board /\ revealCount' # 0)]_vars

\* after a first reveal that revealed cells, a reveal() on a mine: the game
\* is lost on the same mine layer, init() did not run
C15_Witness ==
    /\ pc = "play" /\ lastOp = "reveal" /\ ~reinited
    /\ RevealedCells(Pre) # {}
    /\ get(State, curY, curX) = MINE
    /\ geti(Pre, curY, curX) = BLANK
    /\ lose

\* C16: win and lose are never both true and each implies done; status() is
\* "Lose" iff lose, "Win" iff win, "Aborted" iff done with neither, "Playing"
\* otherwise; quit() while Playing gives "Aborted" and quit() after Won or
\* Lost leaves "Win" or "Lose".
C16_OutcomeConsistent ==
    /\ ~(win /\ lose)
    /\ win => done
    /\ lose => done
    /\ status(State) = "Lose" <=> lose
    /\ status(State) = "Win" <=> win
    /\ status(State) = "Aborted" <=> (done /\ ~win /\ ~lose)
    /\ status(State) = "Playing" <=> (~done /\ ~win /\ ~lose)
    /\ status(State) = "Playing" => status(quit(State)) = "Aborted"
    /\ status(State) \in { "Win", "Lose" } => status(quit(State)) = status(State)

\* quit() called on a game that a fill had won: the status is still "Win"
C16_Witness ==
    /\ pc = "play" /\ lastOp = "quit" /\ quitCalled
    /\ win /\ done /\ ~lose
    /\ Cardinality(RevealedCells(State)) >= 2
    /\ status(State) = "Win"

\* C17: in a Playing state the recursion of r_reveal and a worklist fill, in
\* any of the neighbour orders and as a stack or as a queue, end with the
\* same player layer, the same revealCount and the same outcome.
C17_OrderIndependent ==
    (pc = "play" /\ status(State) = "Playing") =>
        \A t \in reveal_loop(State) :
            \A ord \in Orders : \A lifo \in BOOLEAN :
                LET r == r_reveal(t, t.curY, t.curX)
                    v == worklist(t, << <<t.curY, t.curX>> >>, ord, lifo)
                IN  /\ v.input_board = r.input_board
                    /\ v.revealCount = r.revealCount
                    /\ status(v) = status(r)

\* C18: a second reveal() right after a reveal() changes nothing: the mine
\* layer, the player layer, the counters, the cursor and the outcome are as
\* the first call left them.
C18_RevealIdempotent ==
    pc = "play" =>
        \A t \in reveal(State) : reveal(t) = { t }

\* a reveal() on a '0' cell has just revealed several cells and the game goes
\* on; a second reveal() here returns this very state
C18_Witness ==
    /\ pc = "play" /\ lastOp = "reveal" /\ ~done
    /\ get(State, curY, curX) = Digit0
    /\ Cardinality(RevealedCells(State) \ RevealedCells(Pre)) >= 2
    /\ reveal(State) = { State }

\* the values a cell of the mine layer and of the player layer can hold
BoardValues == { MINE, BLANK } \cup { Digit0 + n : n \in 0 .. 8 }
InputValues == { BLANK, REVEAL, FLAGGED }

\* C19: for every TCell coordinate outside the grid get() and geti() return
\* ERROR and set() and seti() change nothing; ERROR is none of the values a
\* cell can hold, and every cell inside the grid holds one of those values.
C19_OutOfBoundsSafe ==
    /\ ERROR \notin BoardValues \cup InputValues
    /\ \A c \in Cells(State) :
          /\ get(State, c[1], c[2]) \in BoardValues
          /\ geti(State, c[1], c[2]) \in InputValues
    /\ \A y \in TCells, x \in TCells :
          ~(y \in 0 .. height - 1 /\ x \in 0 .. width - 1) =>
              /\ get(State, y, x) = ERROR
              /\ geti(State, y, x) = ERROR
              /\ LET a == set(State, y, x, MINE)
                     b == seti(State, y, x, REVEAL)
                 IN  /\ a.board = board /\ a.input_board = input_board
                     /\ b.board = board /\ b.input_board = input_board

\* a 2x3 board with a mine, a digit, a flagged and a revealed cell, on which
\* the accesses just outside each edge give ERROR and change nothing
C19_Witness ==
    /\ pc = "play" /\ height = 2 /\ width = 3 /\ mines = 1
    /\ FlaggedCells(State) # {} \/ RevealedCells(State) # {}
    /\ lastOp \in { "flag", "reveal" }
    /\ get(State, -1, 0) = ERROR /\ get(State, height, 0) = ERROR
    /\ geti(State, 0, -1) = ERROR /\ geti(State, 0, width) = ERROR
    /\ seti(State, height, width, REVEAL) = State
    /\ set(State, -128, 127, MINE) = State

====
